---------------------------- MODULE Spec2Model ----------------------------
(***************************************************************************)
(* A state-machine model of vaccipy's command-line front end (main.py):    *)
(* argument validation, the interactive menu, the two subcommands, the     *)
(* interactive entry of contact data, the non-interactive search and the   *)
(* code generation with its SMS confirmation loop.                         *)
(*                                                                         *)
(* Python strings are sequences of one-character strings, Python dicts are *)
(* functions whose DOMAIN is the set of keys that are present.  The        *)
(* collaborators imported from tools.* (contact-data validation and        *)
(* loading, remove_prefix, ImpfterminService) are not part of main.py;     *)
(* they are modelled by their contract and every remote result is a        *)
(* nondeterministic choice.                                                *)
(***************************************************************************)
EXTENDS Integers, Sequences, FiniteSets, TLC

(***************************************************************************)
(* Strings                                                                 *)
(***************************************************************************)
Lowers == <<"a","b","c","d","e","f","g","h","i","j","k","l","m",
            "n","o","p","q","r","s","t","u","v","w","x","y","z">>

Uppers == <<"A","B","C","D","E","F","G","H","I","J","K","L","M",
            "N","O","P","Q","R","S","T","U","V","W","X","Y","Z">>

Digits == {"0","1","2","3","4","5","6","7","8","9"}

Whitespace == {" ", "\t", "\n"}

\* str.upper(), one character
UpperChar(c) ==
    IF \E i \in 1..Len(Lowers) : Lowers[i] = c
    THEN Uppers[CHOOSE i \in 1..Len(Lowers) : Lowers[i] = c]
    ELSE c

\* str.lower(), one character
LowerChar(c) ==
    IF \E i \in 1..Len(Uppers) : Uppers[i] = c
    THEN Lowers[CHOOSE i \in 1..Len(Uppers) : Uppers[i] = c]
    ELSE c

\* str.upper()
Upper(s) == [i \in 1..Len(s) |-> UpperChar(s[i])]

\* str.lower()
Lower(s) == [i \in 1..Len(s) |-> LowerChar(s[i])]

\* str.startswith(p)
StartsWith(s, p) == Len(s) >= Len(p) /\ SubSeq(s, 1, Len(p)) = p

\* str.lstrip()
RECURSIVE LStrip(_)
LStrip(s) ==
    IF s # <<>> /\ Head(s) \in Whitespace THEN LStrip(Tail(s)) ELSE s

\* str.rstrip()
RECURSIVE RStrip(_)
RStrip(s) ==
    IF s # <<>> /\ s[Len(s)] \in Whitespace
    THEN RStrip(SubSeq(s, 1, Len(s) - 1))
    ELSE s

\* str.strip()
Strip(s) == RStrip(LStrip(s))

\* str.split(sep) for a one-character separator: always at least one field
RECURSIVE SplitFrom(_, _, _)
SplitFrom(s, sep, cur) ==
    IF s = <<>> THEN <<cur>>
    ELSE IF Head(s) = sep THEN <<cur>> \o SplitFrom(Tail(s), sep, <<>>)
    ELSE SplitFrom(Tail(s), sep, Append(cur, Head(s)))

Split(s, sep) == SplitFrom(s, sep, <<>>)

\* str.replace(c, "") for a one-character c
RECURSIVE RemoveChar(_, _)
RemoveChar(s, c) ==
    IF s = <<>> THEN <<>>
    ELSE IF Head(s) = c THEN RemoveChar(Tail(s), c)
    ELSE <<Head(s)>> \o RemoveChar(Tail(s), c)

\* tools.utils.remove_prefix: the prefix is removed once, if it is there
remove_prefix(s, p) ==
    IF StartsWith(s, p) THEN SubSeq(s, Len(p) + 1, Len(s)) ELSE s

Range(s) == {s[i] : i \in 1..Len(s)}

NoDuplicates(s) == \A i, j \in 1..Len(s) : s[i] = s[j] => i = j

\* every sequence over alphabet a of length at most n
RECURSIVE StringsUpTo(_, _)
StringsUpTo(a, n) ==
    IF n = 0 THEN {<<>>}
    ELSE LET shorter == StringsUpTo(a, n - 1)
         IN  shorter \cup {Append(s, c) : s \in shorter, c \in a}

(***************************************************************************)
(* Dicts                                                                   *)
(***************************************************************************)
EmptyDict == <<>>

Has(d, k) == k \in DOMAIN d

Put(d, k, v) == (k :> v) @@ d

(***************************************************************************)
(* Contact data: tools.kontaktdaten, modelled by its contract              *)
(***************************************************************************)
TopKeys == {"code", "plz_impfzentren", "kontakt"}

KontaktKeys == {"anrede", "vorname", "nachname", "strasse", "hausnummer",
                "plz", "ort", "phone", "notificationChannel",
                "notificationReceiver"}

CountryPrefix == <<"+","4","9">>

ValidText(v) == v # <<>>

ValidPlz(p) == p # <<>> /\ Range(p) \subseteq Digits

ValidPlzImpfzentren(l) == l # <<>> /\ \A i \in 1..Len(l) : ValidPlz(l[i])

\* the canonical form: the country prefix, then digits without a trunk zero
ValidPhone(p) ==
    /\ StartsWith(p, CountryPrefix)
    /\ Len(p) > Len(CountryPrefix)
    /\ p[Len(CountryPrefix) + 1] # "0"
    /\ \A i \in (Len(CountryPrefix) + 1)..Len(p) : p[i] \in Digits

ValidKontakt(k) ==
    /\ DOMAIN k \subseteq KontaktKeys
    /\ \A key \in DOMAIN k :
          IF key = "phone" THEN ValidPhone(k[key]) ELSE ValidText(k[key])

\* validate_kontaktdaten: TRUE when it returns, FALSE when it raises
\* ValidationError.  Every key is optional, every key that is there must be
\* one of the documented fields and well-formed.
validate_kontaktdaten(kd) ==
    /\ DOMAIN kd \subseteq TopKeys
    /\ Has(kd, "code") => ValidText(kd["code"])
    /\ Has(kd, "plz_impfzentren") => ValidPlzImpfzentren(kd["plz_impfzentren"])
    /\ Has(kd, "kontakt") => ValidKontakt(kd["kontakt"])

\* The contact-data file: absent, empty (opened for writing and not written)
\* or holding a JSON object.
NoFile == [state |-> "absent", data |-> EmptyDict]

EmptyFile == [state |-> "empty", data |-> EmptyDict]

JsonFile(kd) == [state |-> "json", data |-> kd]

\* get_kontaktdaten: the outcomes of loading the file.  A file that is not
\* there or holds no JSON yields the empty dict, invalid data raises.
get_kontaktdaten(f) ==
    IF f.state = "json"
    THEN IF validate_kontaktdaten(f.data)
         THEN [ok |-> TRUE, data |-> f.data]
         ELSE [ok |-> FALSE, data |-> EmptyDict]
    ELSE [ok |-> TRUE, data |-> EmptyDict]

\* os.path.isfile
isfile(f) == f.state # "absent"

(***************************************************************************)
(* Pure parts of main.py                                                   *)
(***************************************************************************)
\* every duplicate-free list of the elements of S: list(set(...)) fixes no
\* order
Orderings(S) == {l \in [1..Cardinality(S) -> S] : Range(l) = S}

\* [plz.strip() for plz in x.split(",")] as a set
PlzTokens(x) == {Strip(t) : t \in Range(Split(x, ","))}

\* the transformer of the plz_impfzentren prompt: its possible results
PlzTransformerKeepsDuplicates(x) ==
    {[i \in 1..Len(Split(x, ",")) |-> Strip(Split(x, ",")[i])]}

PlzTransformer(x) == Orderings(PlzTokens(x))

\* the transformer of the phone prompt
PhoneTransformer(x) ==
    IF StartsWith(x, CountryPrefix)
    THEN x
    ELSE CountryPrefix \o remove_prefix(x, <<"0">>)

\* the phone normalisation of gen_code
GenCodeTelefonnummer(t) ==
    IF ~StartsWith(t, CountryPrefix)
    THEN CountryPrefix \o remove_prefix(t, <<"0">>)
    ELSE t

\* the prompts of update_kontaktdaten_interactive in their order
Prompts == <<
    [key |-> "plz_impfzentren",      top |-> TRUE,  cmds |-> {"code", "search"}],
    [key |-> "code",                 top |-> TRUE,  cmds |-> {"search"}],
    [key |-> "anrede",               top |-> FALSE, cmds |-> {"search"}],
    [key |-> "vorname",              top |-> FALSE, cmds |-> {"search"}],
    [key |-> "nachname",             top |-> FALSE, cmds |-> {"search"}],
    [key |-> "strasse",              top |-> FALSE, cmds |-> {"search"}],
    [key |-> "hausnummer",           top |-> FALSE, cmds |-> {"search"}],
    [key |-> "plz",                  top |-> FALSE, cmds |-> {"search"}],
    [key |-> "ort",                  top |-> FALSE, cmds |-> {"search"}],
    [key |-> "phone",                top |-> FALSE, cmds |-> {"code", "search"}],
    [key |-> "notificationReceiver", top |-> FALSE, cmds |-> {"code", "search"}] >>

PlzPrompt == 1

FirstKontaktPrompt == 3

PhonePrompt == 10

LastPrompt == 11

Email == <<"e","m","a","i","l">>

\* "key not in kontaktdaten" / "key not in kontaktdaten['kontakt']"
KeyMissingUnchecked(kd, i) == TRUE

KeyMissing(kd, i) ==
    IF Prompts[i].top
    THEN ~Has(kd, Prompts[i].key)
    ELSE ~Has(kd["kontakt"], Prompts[i].key)

\* target[key] = value in input_kontaktdaten_key
SetKey(kd, i, v) ==
    IF Prompts[i].top
    THEN Put(kd, Prompts[i].key, v)
    ELSE Put(kd, "kontakt", Put(kd["kontakt"], Prompts[i].key, v))

\* the two assignments update_kontaktdaten_interactive makes without asking
Defaults(kd, i) ==
    IF i = FirstKontaktPrompt /\ ~Has(kd, "kontakt")
    THEN Put(kd, "kontakt", EmptyDict)
    ELSE IF i = LastPrompt /\ ~Has(kd["kontakt"], "notificationChannel")
    THEN Put(kd, "kontakt", Put(kd["kontakt"], "notificationChannel", Email))
    ELSE kd

\* update_kontaktdaten_interactive from the i-th "if" on, up to the next
\* input() or to json.dump (pos = LastPrompt + 1)
RECURSIVE Advance(_, _, _)
Advance(kd, cmd, i) ==
    IF i > LastPrompt THEN [kd |-> kd, pos |-> i]
    ELSE LET kd1 == Defaults(kd, i)
         IN  IF KeyMissing(kd1, i) /\ cmd \in Prompts[i].cmds
             THEN [kd |-> kd1, pos |-> i]
             ELSE Advance(kd1, cmd, i + 1)

\* the values transformer(input(prompt).strip()) can take at prompt i
Transformed(i, raw) ==
    IF i = PlzPrompt THEN PlzTransformer(Strip(raw))
    ELSE IF i = PhonePrompt THEN {PhoneTransformer(Strip(raw))}
    ELSE {Strip(raw)}

\* the try block of run_search: the keys it reads
RunSearchKeysPresentButNames(kd) ==
    /\ Has(kd, "code")
    /\ (Has(kd, "plz") /\ kd["plz"] # <<>>) \/ Has(kd, "plz_impfzentren")
    /\ Has(kd, "kontakt")

RunSearchKeysPresent(kd) ==
    /\ Has(kd, "code")
    /\ (Has(kd, "plz") /\ kd["plz"] # <<>>) \/ Has(kd, "plz_impfzentren")
    /\ Has(kd, "kontakt")
    /\ Has(kd["kontakt"], "vorname")
    /\ Has(kd["kontakt"], "nachname")

\* plz_impfzentren as run_search passes it on
RunSearchPlz(kd) ==
    IF Has(kd, "plz") /\ kd["plz"] # <<>>
    THEN <<kd["plz"]>>
    ELSE kd["plz_impfzentren"]

\* the try block of gen_code: the exception its lookups raise, "" for none
GenCodeLookupError(kd) ==
    IF ~Has(kd, "plz_impfzentren") THEN "KeyError"
    ELSE IF kd["plz_impfzentren"] = <<>> THEN "IndexError"
    ELSE IF ~Has(kd, "kontakt") THEN "KeyError"
    ELSE IF ~Has(kd["kontakt"], "notificationReceiver") THEN "KeyError"
    ELSE IF ~Has(kd["kontakt"], "phone") THEN "KeyError"
    ELSE ""

Leistungsmerkmale == { <<"L","9","2","0">>, <<"L","9","2","1">>,
                       <<"L","9","2","2">>, <<"L","9","2","3">> }

\* int(s): whether the text is an integer literal, and its value
IsInt(s) ==
    LET t == Strip(s)
        d == IF t # <<>> /\ Head(t) \in {"+", "-"} THEN Tail(t) ELSE t
    IN  d # <<>> /\ Range(d) \subseteq Digits

DigitValue(c) == CHOOSE n \in 0..9 : <<"0","1","2","3","4","5","6","7","8","9">>[n + 1] = c

RECURSIVE DigitsValue(_)
DigitsValue(d) ==
    IF d = <<>> THEN 0
    ELSE 10 * DigitsValue(SubSeq(d, 1, Len(d) - 1)) + DigitValue(d[Len(d)])

ParseInt(s) ==
    LET t == Strip(s)
    IN  IF Head(t) = "-" THEN 0 - DigitsValue(Tail(t))
        ELSE IF Head(t) = "+" THEN DigitsValue(Tail(t))
        ELSE DigitsValue(t)

(***************************************************************************)
(* Bounds and the inputs the model draws from                              *)
(***************************************************************************)
\* invalid category entries counted per run of gen_code
MaxRejects == 2

\* length of the exhaustively enumerated input strings
MaxLen == 4

Plz1 == <<"6","8","1","6","3">>

Plz2 == <<"6","9","1","2","4">>

\* "68163, 69124, 68163"
PlzScenario == Plz1 \o <<",", " ">> \o Plz2 \o <<",", " ">> \o Plz1

\* "0151234567"
PhoneScenario == <<"0","1","5","1","2","3","4","5","6","7">>

PhoneGood == <<"+","4","9","1","5">>

TextGood == <<"A">>

MailGood == <<"m","@","x">>

CodeGood == <<"C","1">>

FullKontakt ==
    [anrede |-> TextGood, vorname |-> TextGood, nachname |-> TextGood,
     strasse |-> TextGood, hausnummer |-> TextGood, plz |-> Plz1,
     ort |-> TextGood, phone |-> PhoneGood, notificationChannel |-> Email,
     notificationReceiver |-> MailGood]

FullKontaktdaten ==
    [code |-> CodeGood, plz_impfzentren |-> <<Plz1, Plz2>>,
     kontakt |-> FullKontakt]

Without(d, k) == [x \in DOMAIN d \ {k} |-> d[x]]

WithoutKontakt(d, k) == Put(d, "kontakt", Without(d["kontakt"], k))

\* what the contact-data file may hold when the program starts
InitialData ==
    { EmptyDict,
      FullKontaktdaten,
      Without(FullKontaktdaten, "code"),
      Without(FullKontaktdaten, "plz_impfzentren"),
      Without(FullKontaktdaten, "kontakt"),
      WithoutKontakt(FullKontaktdaten, "vorname"),
      WithoutKontakt(FullKontaktdaten, "nachname"),
      WithoutKontakt(FullKontaktdaten, "phone"),
      WithoutKontakt(FullKontaktdaten, "notificationReceiver"),
      \* the old format, with "plz" instead of "plz_impfzentren"
      Put(Without(FullKontaktdaten, "plz_impfzentren"), "plz", Plz1),
      \* a phone number that is not well-formed
      Put(FullKontaktdaten, "kontakt",
          Put(FullKontakt, "phone", <<"0","1","5">>)) }

InitialFiles == {NoFile, EmptyFile} \cup {JsonFile(d) : d \in InitialData}

RetrySecs == {60, 5}

\* what the user may type at the prompts
OptionInputs == { <<"1">>, <<"2">>, <<"x">>, <<"X">>, <<"c">>, <<"C">>,
                  <<"r">>, <<"R">>, <<"s">>, <<"S">>, <<"q">>, <<>> }

RetrySecInputs == { <<"5">>, <<" ","6","0">>, <<"a">>, <<>> }

DatenLadenInputs == { <<"y">>, <<"n">>, <<"N">>, <<>> }

KeyInputs(i) ==
    IF i = PlzPrompt THEN {PlzScenario, Plz2, <<",">>}
    ELSE IF i = PhonePrompt THEN {<<"0","1","5">>, PhoneGood, <<"0","0">>}
    ELSE {<<" ", "A", " ">>, <<" ">>}

LeistungInputs == { <<"L","9","2","1">>, <<"l","9","2","3">>,
                    <<"L","9","2","4">>, <<>> }

SmsInputs == { <<"1","2","-","3","4">>, <<"1","2","3","4">> }

Tokens == {"tokA", "tokB"}

\* the alphabet random.choice draws from here
CodeChars == {"A"}

(***************************************************************************)
(* State                                                                   *)
(***************************************************************************)
VARIABLES
    args,               \* the argparse namespace of main
    extended_settings,  \* main: whether the menu shows the settings
    pc,                 \* where the program stands
    exc,                \* the exception that is propagating, "" for none
    exit_status,        \* the status the process ended with, -1 while it runs
    msg,                \* what the latest step printed, "" for nothing
    file,               \* the contact-data file
    known,              \* known_kontaktdaten, the caller's dict
    kontaktdaten,       \* the dict being filled in, or passed on
    command,            \* update_kontaktdaten_interactive's command
    upos,               \* the prompt update_kontaktdaten_interactive stands at
    after,              \* what the caller does with the updated data
    its,                \* the ImpfterminService object and the calls made on it
    gc,                 \* the locals of gen_code
    rs,                 \* the locals of run_search
    ret,                \* what gen_code returned
    rejects,            \* category entries gen_code has rejected in this run
    inp                 \* the text the last input() returned

vars == <<args, extended_settings, pc, exc, exit_status, msg, file, known,
          kontaktdaten, command, upos, after, its, gc, rs, ret, rejects, inp>>

menuVars == <<args, extended_settings>>

updVars == <<known, kontaktdaten, command, upos, after>>

genVars == <<its, gc, ret, rejects>>

DefaultPath == "data/kontaktdaten.json"

DefaultRetrySec == 60

NoIts == [created |-> FALSE, code |-> <<>>, plz_impfzentren |-> <<>>,
          calls |-> <<>>]

NoGc == [plz_impfzentrum |-> <<>>, mail |-> <<>>, telefonnummer |-> <<>>,
         leistungsmerkmal |-> <<>>, token |-> "None", versuch |-> 0]

NoRs == [code |-> <<>>, plz_impfzentren |-> <<>>, kontakt |-> EmptyDict,
         check_delay |-> 0]

\* the namespaces parse_args and the defaults of main can produce
InitialArgs ==
    { [command |-> "none", file |-> DefaultPath, configure_only |-> FALSE,
       read_only |-> FALSE, retry_sec |-> DefaultRetrySec] }
    \cup
    { [command |-> "search", file |-> DefaultPath, configure_only |-> c,
       read_only |-> r, retry_sec |-> s] :
         c \in BOOLEAN, r \in BOOLEAN, s \in RetrySecs }
    \cup
    { [command |-> "code", file |-> DefaultPath, configure_only |-> c,
       read_only |-> r, retry_sec |-> DefaultRetrySec] :
         c \in BOOLEAN, r \in BOOLEAN }

LocalsCleared ==
    /\ known' = EmptyDict
    /\ kontaktdaten' = EmptyDict
    /\ command' = ""
    /\ upos' = 0
    /\ after' = ""
    /\ its' = NoIts
    /\ gc' = NoGc
    /\ rs' = NoRs
    /\ ret' = "none"
    /\ rejects' = 0
    /\ inp' = <<>>

Init ==
    /\ args \in InitialArgs
    /\ extended_settings = FALSE
    /\ pc = "main"
    /\ exc = ""
    /\ exit_status = -1
    /\ msg = ""
    /\ file \in InitialFiles
    /\ known = EmptyDict
    /\ kontaktdaten = EmptyDict
    /\ command = ""
    /\ upos = 0
    /\ after = ""
    /\ its = NoIts
    /\ gc = NoGc
    /\ rs = NoRs
    /\ ret = "none"
    /\ rejects = 0
    /\ inp = <<>>

\* raise e
Raise(e) == pc' = "raised" /\ exc' = e

(***************************************************************************)
(* main: arguments, dispatch, menu                                         *)
(***************************************************************************)
\* validate_args: TRUE when it returns, FALSE when it raises ValueError
validate_args_unchecked(a) == TRUE

validate_args(a) == ~(a.configure_only /\ a.read_only)

\* main, the try around validate_args: parser.error ends the process with
\* status 2
MainValidateArgs ==
    /\ pc = "main"
    /\ IF validate_args(args)
       THEN pc' = "dispatch" /\ msg' = "" /\ UNCHANGED exit_status
       ELSE pc' = "exit" /\ exit_status' = 2 /\ msg' = "usage"
    /\ UNCHANGED <<menuVars, exc, file, updVars, genVars, rs, inp>>

\* main, "if args.command is not None": the subcommand, or the menu
MainDispatch ==
    /\ pc = "dispatch"
    /\ pc' = CASE args.command = "search" -> "subcommand_search"
               [] args.command = "code" -> "subcommand_code"
               [] OTHER -> "menu"
    /\ extended_settings' = FALSE
    /\ UNCHANGED <<args, exc, exit_status, file, updVars, genVars, rs, inp>>
    /\ msg' = ""

\* option = input("> Option: ").lower() with the menu waiting
Option(raw, o) == pc = "menu" /\ inp' = raw /\ Lower(raw) = o

MenuSearch ==
    /\ \E raw \in OptionInputs : Option(raw, <<"1">>)
    /\ pc' = "subcommand_search"
    /\ msg' = ""
    /\ UNCHANGED <<menuVars, exc, exit_status, file, updVars, genVars, rs>>

MenuCode ==
    /\ \E raw \in OptionInputs : Option(raw, <<"2">>)
    /\ pc' = "subcommand_code"
    /\ msg' = ""
    /\ UNCHANGED <<menuVars, exc, exit_status, file, updVars, genVars, rs>>

MenuExtendedSettings ==
    /\ \E raw \in OptionInputs : Option(raw, <<"x">>)
    /\ extended_settings' = ~extended_settings
    /\ msg' = ""
    /\ UNCHANGED <<args, pc, exc, exit_status, file, updVars, genVars, rs>>

\* the toggle is made on a copy that replaces args once it is validated
MenuToggleInPlace(new_args, done) ==
    IF validate_args(new_args)
    THEN args' = new_args /\ msg' = done /\ UNCHANGED <<pc, exc>>
    ELSE Raise("ValueError") /\ msg' = "" /\ args' = new_args

MenuToggle(new_args, done) ==
    IF validate_args(new_args)
    THEN args' = new_args /\ msg' = done /\ UNCHANGED <<pc, exc>>
    ELSE Raise("ValueError") /\ msg' = "" /\ UNCHANGED args

MenuConfigureOnly ==
    /\ extended_settings
    /\ \E raw \in OptionInputs : Option(raw, <<"c">>)
    /\ MenuToggle([args EXCEPT !.configure_only = ~args.configure_only],
                  "configure-only")
    /\ UNCHANGED <<extended_settings, exit_status, file, updVars, genVars, rs>>

MenuReadOnly ==
    /\ extended_settings
    /\ \E raw \in OptionInputs : Option(raw, <<"r">>)
    /\ MenuToggle([args EXCEPT !.read_only = ~args.read_only], "read-only")
    /\ UNCHANGED <<extended_settings, exit_status, file, updVars, genVars, rs>>

MenuRetrySec ==
    /\ extended_settings
    /\ \E raw \in OptionInputs : Option(raw, <<"s">>)
    /\ pc' = "retry_sec"
    /\ msg' = ""
    /\ UNCHANGED <<menuVars, exc, exit_status, file, updVars, genVars, rs>>

\* args.retry_sec = int(input("> --retry-sec="))
MenuRetrySecInput ==
    /\ pc = "retry_sec"
    /\ \E raw \in RetrySecInputs :
          /\ inp' = raw
          /\ IF IsInt(raw)
             THEN /\ args' = [args EXCEPT !.retry_sec = ParseInt(raw)]
                  /\ pc' = "menu"
                  /\ UNCHANGED exc
             ELSE Raise("ValueError") /\ UNCHANGED args
    /\ UNCHANGED <<extended_settings, exit_status, file, updVars,
                   genVars, rs>>
    /\ msg' = ""

MenuInvalid ==
    /\ \E raw \in OptionInputs :
          /\ Option(raw, Lower(raw))
          /\ Lower(raw) \notin {<<"1">>, <<"2">>, <<"x">>}
          /\ extended_settings => Lower(raw) \notin {<<"c">>, <<"r">>, <<"s">>}
    /\ msg' = "Falscheingabe"
    /\ UNCHANGED <<menuVars, pc, exc, exit_status, file, updVars, genVars, rs>>

(***************************************************************************)
(* The subcommands                                                         *)
(***************************************************************************)
\* update_kontaktdaten_interactive(get_kontaktdaten(args.file), c, args.file)
ConfigureOnlyThenRun(c) ==
    LET loaded == get_kontaktdaten(file)
    IN  IF loaded.ok
        THEN /\ known' = loaded.data
             /\ command' = c
             /\ after' = IF c = "search" THEN "run_search" ELSE "gen_code"
             /\ pc' = "update"
             /\ UNCHANGED <<exc, kontaktdaten>>
        ELSE /\ Raise("ValidationError")
             /\ UNCHANGED <<known, command, after, kontaktdaten>>

ConfigureOnly(c) ==
    LET loaded == get_kontaktdaten(file)
    IN  IF loaded.ok
        THEN /\ known' = loaded.data
             /\ command' = c
             /\ after' = "return"
             /\ pc' = "update"
             /\ UNCHANGED <<exc, kontaktdaten>>
        ELSE /\ Raise("ValidationError")
             /\ UNCHANGED <<known, command, after, kontaktdaten>>

\* f(get_kontaktdaten(args.file)) for f = run_search or gen_code
ReadOnly(f) ==
    LET loaded == get_kontaktdaten(file)
    IN  IF loaded.ok
        THEN /\ kontaktdaten' = loaded.data
             /\ pc' = f
             /\ UNCHANGED <<exc, known, command, after>>
        ELSE /\ Raise("ValidationError")
             /\ UNCHANGED <<known, command, after, kontaktdaten>>

Interactive(f) ==
    /\ pc' = f
    /\ UNCHANGED <<exc, known, command, after, kontaktdaten>>

subcommand_search ==
    /\ pc = "subcommand_search"
    /\ IF args.configure_only THEN ConfigureOnly("search")
       ELSE IF args.read_only THEN ReadOnly("run_search")
       ELSE Interactive("run_search_interactive")
    /\ UNCHANGED <<menuVars, exit_status, file, upos, genVars, rs, inp>>
    /\ msg' = ""

subcommand_code ==
    /\ pc = "subcommand_code"
    /\ IF args.configure_only THEN ConfigureOnly("code")
       ELSE IF args.read_only THEN ReadOnly("gen_code")
       ELSE Interactive("gen_code_interactive")
    /\ UNCHANGED <<menuVars, exit_status, file, upos, genVars, rs, inp>>
    /\ msg' = ""

\* the start of run_search_interactive and gen_code_interactive: with a file
\* there the user is asked whether to load it, without one the data is {}
InteractiveStart(c, run, ask) ==
    /\ command' = c
    /\ after' = run
    /\ known' = EmptyDict
    /\ pc' = IF isfile(file) THEN ask ELSE "update"
    /\ UNCHANGED <<menuVars, exc, exit_status, file, kontaktdaten, upos,
                   genVars, rs, inp>>
    /\ msg' = "intro"

\* daten_laden = input(...).lower(); anything but "n" loads the file
DatenLaden ==
    /\ \E raw \in DatenLadenInputs :
          /\ inp' = raw
          /\ IF Lower(raw) # <<"n">>
             THEN LET loaded == get_kontaktdaten(file)
                  IN  IF loaded.ok
                      THEN known' = loaded.data /\ pc' = "update"
                                                /\ UNCHANGED exc
                      ELSE Raise("ValidationError") /\ UNCHANGED known
             ELSE known' = EmptyDict /\ pc' = "update" /\ UNCHANGED exc
    /\ UNCHANGED <<menuVars, exit_status, file, kontaktdaten, command,
                   upos, after, genVars, rs>>
    /\ msg' = ""

run_search_interactive ==
    /\ pc = "run_search_interactive"
    /\ InteractiveStart("search", "run_search", "search_daten_laden")

run_search_interactive_laden ==
    /\ pc = "search_daten_laden"
    /\ DatenLaden

gen_code_interactive ==
    /\ pc = "gen_code_interactive"
    /\ InteractiveStart("code", "gen_code", "code_daten_laden")

gen_code_interactive_laden ==
    /\ pc = "code_daten_laden"
    /\ DatenLaden

(***************************************************************************)
(* update_kontaktdaten_interactive                                         *)
(***************************************************************************)
\* where the function stands once it has run from the i-th "if" on
UpdateFrom(kd, i) ==
    LET a == Advance(kd, command, i)
    IN  /\ kontaktdaten' = a.kd
        /\ upos' = a.pos
        /\ pc' = IF a.pos <= LastPrompt THEN "input_key" ELSE "dump"

\* the entry: the known data is validated and copied, the file is opened
\* for writing, which empties it
update_kontaktdaten_interactive ==
    /\ pc = "update"
    /\ IF validate_kontaktdaten(known)
       THEN /\ file' = EmptyFile
            /\ UpdateFrom(known, 1)
            /\ UNCHANGED exc
       ELSE /\ Raise("ValidationError")
            /\ UNCHANGED <<file, kontaktdaten, upos>>
    /\ UNCHANGED <<menuVars, exit_status, known, command, after, genVars,
                   rs, inp>>
    /\ msg' = ""

\* one turn of the loop of input_kontaktdaten_key for the prompt upos, the
\* text typed drawn from inputs
input_kontaktdaten_key(inputs) ==
    /\ pc = "input_key"
    /\ \E raw \in inputs : \E v \in Transformed(upos, raw) :
          LET kd1 == SetKey(kontaktdaten, upos, v)
          IN  /\ inp' = raw
              /\ IF validate_kontaktdaten(kd1)
                 THEN UpdateFrom(kd1, upos + 1) /\ msg' = ""
                 ELSE /\ kontaktdaten' = kd1
                      /\ msg' = "ValidationError"
                      /\ UNCHANGED <<pc, upos>>
    /\ UNCHANGED <<menuVars, exc, exit_status, file, known, command, after,
                   genVars, rs>>

\* json.dump and the return to the caller
update_kontaktdaten_dump ==
    /\ pc = "dump"
    /\ file' = JsonFile(kontaktdaten)
    /\ pc' = IF after = "return" THEN "returned" ELSE after
    /\ known' = EmptyDict
    /\ UNCHANGED <<menuVars, exc, exit_status, kontaktdaten, command,
                   upos, after, genVars, rs, inp>>
    /\ msg' = ""

(***************************************************************************)
(* run_search                                                              *)
(***************************************************************************)
\* the try block: the contact data is read, a missing key is a ValueError
run_search ==
    /\ pc = "run_search"
    /\ IF RunSearchKeysPresent(kontaktdaten)
       THEN /\ rs' = [code |-> kontaktdaten["code"],
                      plz_impfzentren |-> RunSearchPlz(kontaktdaten),
                      kontakt |-> kontaktdaten["kontakt"],
                      check_delay |-> args.retry_sec]
            /\ pc' = "terminsuche"
            /\ msg' = "geladen"
            /\ UNCHANGED exc
       ELSE /\ Raise("ValueError")
            /\ msg' = ""
            /\ UNCHANGED rs
    /\ UNCHANGED <<menuVars, exit_status, file, updVars, genVars, inp>>

\* ImpfterminService.terminsuche(...): it returns, or it raises
terminsuche ==
    /\ pc = "terminsuche"
    /\ its' = [created |-> TRUE, code |-> rs.code,
               plz_impfzentren |-> rs.plz_impfzentren,
               calls |-> <<[op |-> "terminsuche"]>>]
    /\ \/ pc' = "returned" /\ UNCHANGED exc
       \/ Raise("RemoteError")
    /\ msg' = ""
    /\ UNCHANGED <<menuVars, exit_status, file, updVars, gc, ret, rejects, rs,
                   inp>>

(***************************************************************************)
(* gen_code                                                                *)
(***************************************************************************)
\* the confirmation attempts of one token: range(3)
SmsVersucheOffByOne == 3 + 1

SmsVersuche == 3

\* "if leistungsmerkmal in [...]"
LeistungsmerkmalAcceptedAsTyped(raw, leistungsmerkmal) ==
    raw \in Leistungsmerkmale

LeistungsmerkmalAcceptedUnchecked(raw, leistungsmerkmal) == TRUE

LeistungsmerkmalAccepted(raw, leistungsmerkmal) ==
    leistungsmerkmal \in Leistungsmerkmale

\* "if token is not None"
TokenObtainedUnchecked(token) == TRUE

TokenObtained(token) == token # "None"

\* "if its.code_bestaetigen(token, sms_pin)"
BestaetigtInverted(result) == result # "True"

Bestaetigt(result) == result = "True"

\* f"{one}-{two}-{three}"
RandomCodeShortGroup(two, three) ==
    <<"V","A","C","C">> \o <<"-">> \o <<"I","P","Y">> \o <<"-">> \o three

RandomCode(two, three) ==
    <<"V","A","C","C">> \o <<"-">> \o <<"I","P","Y">> \o <<two>> \o <<"-">>
    \o three

\* a call on the ImpfterminService object
Called(call) == its' = [its EXCEPT !.calls = Append(@, call)]

\* kontaktdaten["plz_impfzentren"][0]
GenCodePlzImpfzentrumLast(kd) ==
    kd["plz_impfzentren"][Len(kd["plz_impfzentren"])]

GenCodePlzImpfzentrum(kd) == kd["plz_impfzentren"][1]

\* the contact data is read, the random code made and the service object
\* created with it, the characters of the code drawn from chars
gen_code(chars) ==
    /\ pc = "gen_code"
    /\ LET e == GenCodeLookupError(kontaktdaten)
       IN  IF e = ""
           THEN /\ gc' = [NoGc EXCEPT
                     !.plz_impfzentrum = GenCodePlzImpfzentrum(kontaktdaten),
                     !.mail = kontaktdaten["kontakt"]["notificationReceiver"],
                     !.telefonnummer =
                         GenCodeTelefonnummer(kontaktdaten["kontakt"]["phone"])]
                /\ \E two \in chars, three \in [1..4 -> chars] :
                      its' = [created |-> TRUE,
                              code |-> RandomCode(two, three),
                              plz_impfzentren |->
                                  <<GenCodePlzImpfzentrum(kontaktdaten)>>,
                              calls |-> <<>>]
                /\ pc' = "leistungsmerkmal"
                /\ msg' = "random_code"
                /\ UNCHANGED exc
           ELSE /\ Raise(IF e = "KeyError" THEN "ValueError" ELSE e)
                /\ msg' = ""
                /\ UNCHANGED <<gc, its>>
    /\ rejects' = 0
    /\ UNCHANGED <<menuVars, exit_status, file, updVars, ret, rs, inp>>

\* one turn of the category loop
gen_code_leistungsmerkmal(inputs) ==
    /\ pc = "leistungsmerkmal"
    /\ \E raw \in inputs :
          LET leistungsmerkmal == Upper(raw)
          IN  /\ inp' = raw
              /\ IF LeistungsmerkmalAccepted(raw, leistungsmerkmal)
                 THEN /\ gc' = [gc EXCEPT !.leistungsmerkmal = leistungsmerkmal]
                      /\ pc' = "renew_cookies_code"
                      /\ msg' = ""
                      /\ UNCHANGED rejects
                 ELSE /\ rejects < MaxRejects
                      /\ rejects' = rejects + 1
                      /\ msg' = "Falscheingabe"
                      /\ UNCHANGED <<gc, pc>>
    /\ UNCHANGED <<menuVars, exc, exit_status, file, updVars, its, ret, rs>>

\* its.renew_cookies_code()
gen_code_renew_cookies ==
    /\ pc = "renew_cookies_code"
    /\ Called([op |-> "renew_cookies_code"])
    /\ \/ pc' = "code_anfordern" /\ UNCHANGED exc
       \/ Raise("RemoteError")
    /\ msg' = ""
    /\ UNCHANGED <<menuVars, exit_status, file, updVars, gc, ret, rejects, rs,
                   inp>>

\* token = its.code_anfordern(...): a token, None, or an exception
gen_code_anfordern ==
    /\ pc = "code_anfordern"
    /\ \E token \in Tokens \cup {"None", "raise"} :
          /\ Called([op |-> "code_anfordern", mail |-> gc.mail,
                     telefonnummer |-> gc.telefonnummer,
                     plz_impfzentrum |-> gc.plz_impfzentrum,
                     leistungsmerkmal |-> gc.leistungsmerkmal,
                     result |-> token])
          /\ IF token = "raise"
             THEN Raise("RemoteError") /\ msg' = "" /\ UNCHANGED <<gc, ret>>
             ELSE IF TokenObtained(token)
             THEN /\ gc' = [gc EXCEPT !.token = token]
                  /\ pc' = "sms"
                  /\ msg' = "sms"
                  /\ UNCHANGED <<exc, ret>>
             ELSE /\ ret' = "False"
                  /\ pc' = "returned"
                  /\ msg' = "nicht erfolgreich"
                  /\ UNCHANGED <<exc, gc>>
    /\ UNCHANGED <<menuVars, exit_status, file, updVars, rejects, rs, inp>>

\* one turn of "for _ in range(3)": the SMS code is read and confirmed
gen_code_bestaetigen ==
    /\ pc = "sms"
    /\ \E raw \in SmsInputs, result \in {"True", "False", "raise"} :
          /\ inp' = raw
          /\ Called([op |-> "code_bestaetigen", token |-> gc.token,
                     sms_pin |-> RemoveChar(raw, "-"), result |-> result])
          /\ IF result = "raise"
             THEN Raise("RemoteError") /\ msg' = "" /\ UNCHANGED <<gc, ret>>
             ELSE IF Bestaetigt(result)
             THEN /\ ret' = "True"
                  /\ pc' = "returned"
                  /\ msg' = "erfolgreich"
                  /\ UNCHANGED <<exc, gc>>
             ELSE IF gc.versuch + 1 < SmsVersuche
             THEN /\ gc' = [gc EXCEPT !.versuch = @ + 1]
                  /\ msg' = ""
                  /\ UNCHANGED <<pc, exc, ret>>
             ELSE /\ gc' = [gc EXCEPT !.versuch = @ + 1]
                  /\ ret' = "False"
                  /\ pc' = "returned"
                  /\ msg' = "nicht erfolgreich"
                  /\ UNCHANGED exc
    /\ UNCHANGED <<menuVars, exit_status, file, updVars, rejects, rs>>

(***************************************************************************)
(* The end of a subcommand, exceptions                                     *)
(***************************************************************************)
InputPcs == {"retry_sec", "search_daten_laden", "code_daten_laden",
             "input_key", "leistungsmerkmal", "sms"}

\* input() raises: end of input, or the user's interrupt
input_aborted ==
    /\ pc \in InputPcs
    /\ \E e \in {"EOFError", "KeyboardInterrupt"} : Raise(e)
    /\ msg' = ""
    /\ UNCHANGED <<menuVars, exit_status, file, updVars, genVars, rs, inp>>

\* the same at the option prompt, which stands outside the try of the menu
menu_input_aborted ==
    /\ pc = "menu"
    /\ pc' = "exit"
    /\ exit_status' = 1
    /\ \E e \in {"EOFError", "KeyboardInterrupt"} : exc' = e
    /\ msg' = "Traceback"
    /\ UNCHANGED <<menuVars, file, updVars, genVars, rs, inp>>

\* main with a command: the subcommand returned and main ends
MainReturned ==
    /\ pc = "returned"
    /\ args.command # "none"
    /\ pc' = "exit"
    /\ exit_status' = 0
    /\ msg' = ""
    /\ LocalsCleared
    /\ UNCHANGED <<menuVars, exc, file>>

\* main with a command: "except ValidationError" reports and main ends; any
\* other exception ends the process with a traceback
MainExcept ==
    /\ pc = "raised"
    /\ args.command # "none"
    /\ pc' = "exit"
    /\ IF exc = "ValidationError"
       THEN exit_status' = 0 /\ msg' = "Fehler in" /\ exc' = ""
       ELSE exit_status' = 1 /\ msg' = "Traceback" /\ UNCHANGED exc
    /\ LocalsCleared
    /\ UNCHANGED <<menuVars, file>>

\* the menu: the option is done, print() and the next turn of the loop
MenuReturned ==
    /\ pc = "returned"
    /\ args.command = "none"
    /\ pc' = "menu"
    /\ msg' = ""
    /\ LocalsCleared
    /\ UNCHANGED <<menuVars, exc, exit_status, file>>

\* the menu: "except Exception" reports and the loop goes on; an interrupt
\* is no Exception and ends the process
MenuExceptValidationErrorOnly ==
    /\ pc = "raised"
    /\ args.command = "none"
    /\ IF exc # "ValidationError"
       THEN /\ pc' = "exit"
            /\ exit_status' = 1
            /\ msg' = "Traceback"
            /\ UNCHANGED exc
       ELSE /\ pc' = "menu"
            /\ msg' = "Fehler"
            /\ exc' = ""
            /\ UNCHANGED exit_status
    /\ LocalsCleared
    /\ UNCHANGED <<menuVars, file>>

MenuExcept ==
    /\ pc = "raised"
    /\ args.command = "none"
    /\ IF exc = "KeyboardInterrupt"
       THEN /\ pc' = "exit"
            /\ exit_status' = 1
            /\ msg' = "Traceback"
            /\ UNCHANGED exc
       ELSE /\ pc' = "menu"
            /\ msg' = "Fehler"
            /\ exc' = ""
            /\ UNCHANGED exit_status
    /\ LocalsCleared
    /\ UNCHANGED <<menuVars, file>>

(***************************************************************************)
(* The program                                                             *)
(***************************************************************************)
Next ==
    \/ MainValidateArgs
    \/ MainDispatch
    \/ MenuSearch
    \/ MenuCode
    \/ MenuExtendedSettings
    \/ MenuConfigureOnly
    \/ MenuReadOnly
    \/ MenuRetrySec
    \/ MenuRetrySecInput
    \/ MenuInvalid
    \/ menu_input_aborted
    \/ subcommand_search
    \/ subcommand_code
    \/ run_search_interactive
    \/ run_search_interactive_laden
    \/ gen_code_interactive
    \/ gen_code_interactive_laden
    \/ update_kontaktdaten_interactive
    \/ input_kontaktdaten_key(KeyInputs(upos))
    \/ update_kontaktdaten_dump
    \/ run_search
    \/ terminsuche
    \/ gen_code(CodeChars)
    \/ gen_code_leistungsmerkmal(LeistungInputs)
    \/ gen_code_renew_cookies
    \/ gen_code_anfordern
    \/ gen_code_bestaetigen
    \/ input_aborted
    \/ MainReturned
    \/ MainExcept
    \/ MenuReturned
    \/ MenuExcept

Spec == Init /\ [][Next]_vars

(***************************************************************************)
(* Properties                                                              *)
(***************************************************************************)
\* the calls of one operation on the service object, in their order
Calls(op) == SelectSeq(its.calls, LAMBDA c : c.op = op)

Bestaetigungen == Calls("code_bestaetigen")

Anforderungen == Calls("code_anfordern")

Failed(calls) == Len(SelectSeq(calls, LAMBDA c : c.result = "False"))

BothFlags == args.configure_only /\ args.read_only

\* C1: in a run of gen_code at most 3 confirmation calls are made, each with
\* the token code_anfordern returned; with the third failed one gen_code has
\* returned False, so that no fourth call follows.
C1_AtMostThreeConfirmations ==
    /\ Len(Bestaetigungen) <= 3
    /\ \A i \in 1..Len(Bestaetigungen) :
          /\ Len(Anforderungen) = 1
          /\ Bestaetigungen[i].token = Anforderungen[1].result
          /\ Bestaetigungen[i].token \in Tokens
    /\ Failed(Bestaetigungen) = 3 => pc = "returned" /\ ret = "False"
    /\ pc = "sms" => Len(Bestaetigungen) < 3

C1_Witness ==
    /\ pc = "returned"
    /\ ret = "False"
    /\ Len(Bestaetigungen) = 3
    /\ Failed(Bestaetigungen) = 3

\* C2: a successful confirmation is the last call and gen_code has returned
\* True with it; gen_code returns True only after a successful confirmation,
\* and False exactly when no token was obtained or 3 confirmations failed.
C2_SuccessIsTerminal ==
    /\ \A i \in 1..Len(Bestaetigungen) :
          Bestaetigungen[i].result = "True" =>
              i = Len(Bestaetigungen) /\ pc = "returned" /\ ret = "True"
    /\ ret = "True" =>
          /\ Bestaetigungen # <<>>
          /\ Bestaetigungen[Len(Bestaetigungen)].result = "True"
    /\ ret = "False" <=>
          \/ Anforderungen # <<>> /\ Anforderungen[1].result = "None"
          \/ Failed(Bestaetigungen) = 3

C2_Witness ==
    /\ pc = "returned"
    /\ ret = "True"
    /\ Len(Bestaetigungen) = 2
    /\ Bestaetigungen[1].result = "False"
    /\ Bestaetigungen[2].result = "True"

\* C3: when code_anfordern yields no token it has been called once, no SMS
\* code is asked for, code_bestaetigen is not called and gen_code has
\* returned False; the SMS prompt is reached only with a token.
C3_NoTokenAborts ==
    /\ Len(Anforderungen) <= 1
    /\ Anforderungen # <<>> /\ Anforderungen[1].result = "None" =>
          /\ pc = "returned"
          /\ ret = "False"
          /\ Bestaetigungen = <<>>
          /\ gc.token = "None"
    /\ pc = "sms" =>
          /\ Anforderungen # <<>>
          /\ Anforderungen[1].result \in Tokens
          /\ gc.token = Anforderungen[1].result

C3_Witness ==
    /\ pc = "returned"
    /\ ret = "False"
    /\ Anforderungen # <<>>
    /\ Anforderungen[1].result = "None"
    /\ its.calls[Len(its.calls)].op = "code_anfordern"

\* C4: started with both --configure-only and --read-only, the process goes
\* from validate_args straight to its end with status 2: no subcommand is
\* entered, no contact data is loaded, the file is not written and no
\* service object exists.
C4_BothFlagsRejected ==
    /\ [](BothFlags =>
            /\ pc \in {"main", "exit"}
            /\ pc = "exit" => exit_status = 2
            /\ ~its.created /\ its.calls = <<>>
            /\ known = EmptyDict /\ kontaktdaten = EmptyDict
            /\ command = "")
    /\ [][BothFlags => file' = file /\ BothFlags']_vars

C4_Witness == BothFlags /\ pc = "exit" /\ exit_status = 2

(***************************************************************************)
(* The category prompt of gen_code on every short input                    *)
(***************************************************************************)
LeistungAlphabet == {"L", "l", "9", "2", "0", "1", "3", "4", " "}

\* the first entry is any string of the alphabet up to MaxLen, a repeated
\* entry one of the sample
LeistungTyped ==
    IF rejects = 0 THEN StringsUpTo(LeistungAlphabet, MaxLen)
    ELSE LeistungInputs

\* "vaccipy code --read-only" with complete contact data
InitCodeReadOnly ==
    /\ Init
    /\ args.command = "code"
    /\ args.read_only /\ ~args.configure_only
    /\ file \in {JsonFile(FullKontaktdaten),
                 JsonFile(Without(FullKontaktdaten, "code"))}

NextLeistungsmerkmal ==
    \/ MainValidateArgs
    \/ MainDispatch
    \/ subcommand_code
    \/ gen_code(CodeChars)
    \/ gen_code_leistungsmerkmal(LeistungTyped)
    \/ gen_code_renew_cookies
    \/ gen_code_anfordern

SpecLeistungsmerkmal == InitCodeReadOnly /\ [][NextLeistungsmerkmal]_vars

\* a spelling of one of the four tags in any case
IsTagSpelling(t) ==
    /\ Len(t) = 4
    /\ t[1] \in {"L", "l"}
    /\ t[2] = "9"
    /\ t[3] = "2"
    /\ t[4] \in {"0", "1", "2", "3"}

\* the tag a spelling stands for
TagOf(t) == <<"L", "9", "2", t[4]>>

\* C5: the category prompt rejects an entry exactly when it is no spelling,
\* in any case, of L920, L921, L922 or L923, and what is accepted and
\* passed to code_anfordern is the tag in upper case.
C5_SelectorAcceptsExactlyFourTags ==
    /\ pc = "leistungsmerkmal" /\ rejects > 0 => ~IsTagSpelling(inp)
    /\ pc = "renew_cookies_code" =>
          /\ IsTagSpelling(inp)
          /\ gc.leistungsmerkmal = TagOf(inp)
    /\ \A i \in 1..Len(Anforderungen) :
          /\ Anforderungen[i].leistungsmerkmal = gc.leistungsmerkmal
          /\ IsTagSpelling(gc.leistungsmerkmal)
          /\ TagOf(gc.leistungsmerkmal) = gc.leistungsmerkmal

C5_Witness ==
    /\ Anforderungen # <<>>
    /\ inp = <<"l", "9", "2", "3">>
    /\ Anforderungen[1].leistungsmerkmal = <<"L", "9", "2", "3">>
    /\ rejects > 0

CodeFlowPcs == {"renew_cookies_code", "code_anfordern", "sms"}

\* C6: in gen_code no call is made on the service object before a valid
\* category is accepted, and an invalid entry only prints the rejection and
\* asks again, whatever the number of invalid entries.
C6_SelectorValidatedBeforeNetwork ==
    /\ [](/\ pc \in {"gen_code", "leistungsmerkmal"} => its.calls = <<>>
          /\ its.calls # <<>> /\ its.calls[1].op # "terminsuche" =>
                gc.leistungsmerkmal \in Leistungsmerkmale
          /\ pc \in CodeFlowPcs => gc.leistungsmerkmal \in Leistungsmerkmale)
    /\ [][pc = "leistungsmerkmal" /\ pc' = "leistungsmerkmal" =>
            /\ Upper(inp') \notin Leistungsmerkmale
            /\ its' = its
            /\ gc' = gc
            /\ file' = file
            /\ msg' = "Falscheingabe"]_vars

C6_Witness ==
    /\ pc = "leistungsmerkmal"
    /\ rejects = MaxRejects
    /\ msg = "Falscheingabe"
    /\ its.created
    /\ its.calls = <<>>

(***************************************************************************)
(* The phone normalisation on every short input                            *)
(***************************************************************************)
PhoneAlphabet == {"+", "4", "9", "0", "1"}

PhoneStrings == StringsUpTo(PhoneAlphabet, MaxLen) \cup {PhoneScenario}

\* the first entry at the phone prompt is any of the strings, a repeated
\* entry and the entries at the other prompts are of the sample
PhoneTyped ==
    IF upos = PhonePrompt /\ KeyMissing(kontaktdaten, upos)
    THEN PhoneStrings
    ELSE KeyInputs(upos)

\* "vaccipy code" with contact data that lacks the phone number
InitPhone ==
    /\ Init
    /\ args.command = "code"
    /\ ~args.configure_only /\ ~args.read_only
    /\ file \in {JsonFile(WithoutKontakt(FullKontaktdaten, "phone")),
                 JsonFile(Without(FullKontaktdaten, "kontakt"))}

NextPhone ==
    \/ MainValidateArgs
    \/ MainDispatch
    \/ subcommand_code
    \/ gen_code_interactive
    \/ gen_code_interactive_laden
    \/ update_kontaktdaten_interactive
    \/ input_kontaktdaten_key(PhoneTyped)
    \/ update_kontaktdaten_dump
    \/ gen_code(CodeChars)

SpecPhone == InitPhone /\ [][NextPhone]_vars

\* the first and the last place of t that hold no whitespace
NonSpace(t) == {i \in 1..Len(t) : t[i] \notin Whitespace}

Trim(t) ==
    IF NonSpace(t) = {} THEN <<>>
    ELSE SubSeq(t, CHOOSE i \in NonSpace(t) : \A j \in NonSpace(t) : i <= j,
                   CHOOSE i \in NonSpace(t) : \A j \in NonSpace(t) : i >= j)

TrunkZero(p) == Len(p) > Len(CountryPrefix) /\ p[Len(CountryPrefix) + 1] = "0"

\* x normalises to p as the claim has it
Normalised(x, p) ==
    /\ StartsWith(p, CountryPrefix)
    /\ ~TrunkZero(p)
    /\ x = PhoneScenario => p = <<"+","4","9","1","5","1","2","3","4","5","6","7">>

\* the phone number in the contact data was typed at the prompt, as inp:
\* the prompt is repeated, or the next one has not been answered
PhoneEntered ==
    /\ pc = "input_key"
    /\ \/ upos = PhonePrompt
       \/ upos = LastPrompt /\ KeyMissing(kontaktdaten, LastPrompt)
    /\ Has(kontaktdaten["kontakt"], "phone")

\* gen_code has read the phone number from the contact data
PhoneRead == pc = "leistungsmerkmal"

\* C7: every phone input is normalised to a value that starts with
\* +49 and has no trunk zero directly after it, "0151234567" to
\* "+49151234567", at the phone prompt and in gen_code.
C7_EveryPhoneNormalised ==
    /\ PhoneEntered => Normalised(Trim(inp), kontaktdaten["kontakt"]["phone"])
    /\ PhoneRead =>
          Normalised(kontaktdaten["kontakt"]["phone"], gc.telefonnummer)

(***************************************************************************)
(* The plz_impfzentren prompt on every short input                         *)
(***************************************************************************)
PlzAlphabet == {"6", "9", ",", " "}

PlzStrings == StringsUpTo(PlzAlphabet, MaxLen) \cup {PlzScenario}

\* the first entry at the plz_impfzentren prompt is any of the strings, a
\* repeated entry is of the sample
PlzTyped ==
    IF upos = PlzPrompt /\ KeyMissing(kontaktdaten, upos)
    THEN PlzStrings
    ELSE KeyInputs(upos)

\* "vaccipy search|code --configure-only" with contact data that lacks
\* plz_impfzentren
InitPlz ==
    /\ Init
    /\ args.command \in {"search", "code"}
    /\ args.configure_only /\ ~args.read_only
    /\ file = JsonFile(Without(FullKontaktdaten, "plz_impfzentren"))

NextPlz ==
    \/ MainValidateArgs
    \/ MainDispatch
    \/ subcommand_search
    \/ subcommand_code
    \/ update_kontaktdaten_interactive
    \/ input_kontaktdaten_key(PlzTyped)
    \/ update_kontaktdaten_dump

SpecPlz == InitPlz /\ [][NextPlz]_vars

\* the places around the comma-free pieces of x: before x, the commas, after x
Cuts(x) == {0, Len(x) + 1} \cup {i \in 1..Len(x) : x[i] = ","}

\* the maximal comma-free pieces of x
Segments(x) ==
    {SubSeq(x, i + 1, j - 1) : <<i, j>> \in
        {c \in Cuts(x) \X Cuts(x) :
            /\ c[1] < c[2]
            /\ \A k \in Cuts(x) : ~(c[1] < k /\ k < c[2])}}

\* plz_impfzentren in the contact data was typed at the prompt, as inp
PlzEntered ==
    /\ pc \in {"input_key", "dump", "returned"}
    /\ Has(kontaktdaten, "plz_impfzentren")

\* C8: the location list stored for a comma-separated input has no
\* duplicates and holds exactly the distinct whitespace-stripped tokens of
\* the input; "68163, 69124, 68163" gives the two elements 68163 and 69124;
\* the list written to the file is the one stored.
C8_PlzDistinctStrippedTokens ==
    PlzEntered =>
        LET l == kontaktdaten["plz_impfzentren"]
        IN  /\ NoDuplicates(l)
            /\ Range(l) = {Trim(t) : t \in Segments(Trim(inp))}
            /\ inp = PlzScenario => Len(l) = 2 /\ Range(l) = {Plz1, Plz2}
            /\ pc = "returned" => file = JsonFile(kontaktdaten)

C8_Witness ==
    /\ pc = "returned"
    /\ inp = PlzScenario
    /\ file.state = "json"
    /\ Has(file.data, "plz_impfzentren")
    /\ Range(file.data["plz_impfzentren"]) = {Plz1, Plz2}
    /\ Len(file.data["plz_impfzentren"]) = 2

(***************************************************************************)
(* The flags --configure-only and --read-only                              *)
(***************************************************************************)
\* where run_search, gen_code and the calls of the service stand
NetworkPcs == {"run_search", "terminsuche", "gen_code", "leistungsmerkmal",
               "renew_cookies_code", "code_anfordern", "sms"}

\* where the interactive entry of contact data stands
PromptPcs == {"run_search_interactive", "gen_code_interactive",
              "search_daten_laden", "code_daten_laden", "update",
              "input_key", "dump"}

\* C9: with --configure-only set, from the command line or in the menu, a
\* subcommand only runs update_kontaktdaten_interactive and returns:
\* run_search, terminsuche, gen_code and the calls of the service are never
\* reached and no service object exists.
C9_ConfigureOnlySkipsNetwork ==
    args.configure_only =>
        /\ pc \notin NetworkPcs
        /\ pc \notin {"run_search_interactive", "gen_code_interactive",
                      "search_daten_laden", "code_daten_laden"}
        /\ its = NoIts
        /\ pc \in {"update", "input_key", "dump"} => after = "return"

C9_Witness ==
    /\ args.command = "none"
    /\ args.configure_only
    /\ pc = "returned"
    /\ command = "code"
    /\ inp # <<>>
    /\ file = JsonFile(kontaktdaten)

ReadOnlyOnly == args.read_only /\ ~args.configure_only

\* a field run_search requires is not in the data
SearchFieldMissing(kd) ==
    \/ ~Has(kd, "code")
    \/ ~Has(kd, "plz_impfzentren")
    \/ ~Has(kd, "kontakt")
    \/ ~Has(kd["kontakt"], "vorname")
    \/ ~Has(kd["kontakt"], "nachname")

\* a field gen_code requires is not in the data
CodeFieldMissing(kd) ==
    \/ ~Has(kd, "plz_impfzentren")
    \/ ~Has(kd, "kontakt")
    \/ ~Has(kd["kontakt"], "notificationReceiver")
    \/ ~Has(kd["kontakt"], "phone")

MaxCalls == 9

\* the outcomes of one availability probe
ProbeResults == {"expired", "error", "zero", "slots"}

\* 4.3 steps 2-5: what follows a probe
AfterProbeNeverWaits(result) ==
    IF result = "expired" THEN "reestablish_session"
    ELSE IF result = "slots" THEN "book"
    ELSE "probe"

AfterProbe(result) ==
    IF result = "expired" THEN "reestablish_session"
    ELSE IF result = "slots" THEN "book"
    ELSE "wait"

\* 4.3 step 5: what follows a booking, which succeeded or failed
AfterBookingRebooks(result) ==
    IF result = "ok" THEN "returned" ELSE "book"

AfterBooking(result) ==
    IF result = "ok" THEN "returned" ELSE "probe"

\* one more action of the poller fits the log
PollerLogged(call) ==
    /\ Len(its.calls) < MaxCalls
    /\ Called(call)

PollerFrame ==
    UNCHANGED <<menuVars, exit_status, file, updVars, gc, ret, rejects, rs,
                inp>>

\* the engine starts: the session is established with the booking code, or
\* the handshake fails and the run ends
poller_establish_session ==
    /\ pc = "terminsuche"
    /\ \/ /\ its' = [created |-> TRUE, code |-> rs.code,
                     plz_impfzentren |-> rs.plz_impfzentren,
                     calls |-> <<[op |-> "establish_session",
                                  result |-> "ok", sec |-> 0]>>]
          /\ pc' = "probe"
          /\ UNCHANGED exc
       \/ /\ its' = [created |-> TRUE, code |-> rs.code,
                     plz_impfzentren |-> rs.plz_impfzentren,
                     calls |-> <<[op |-> "establish_session",
                                  result |-> "failed", sec |-> 0]>>]
          /\ Raise("SessionError")
    /\ msg' = ""
    /\ PollerFrame

\* step 1: one availability probe for the whole Location Set
poller_probe ==
    /\ pc = "probe"
    /\ \E result \in ProbeResults :
          /\ PollerLogged([op |-> "probe", result |-> result, sec |-> 0])
          /\ pc' = AfterProbe(result)
          /\ msg' = IF result = "error" THEN "probe error" ELSE ""
    /\ UNCHANGED exc
    /\ PollerFrame

\* step 2: the session is established again; a failure ends the run
poller_reestablish_session ==
    /\ pc = "reestablish_session"
    /\ \/ /\ PollerLogged([op |-> "establish_session", result |-> "ok",
                           sec |-> 0])
          /\ pc' = "probe"
          /\ UNCHANGED exc
       \/ /\ PollerLogged([op |-> "establish_session", result |-> "failed",
                           sec |-> 0])
          /\ Raise("SessionError")
    /\ msg' = ""
    /\ PollerFrame

\* steps 3 and 4: wait_interval seconds pass
poller_wait ==
    /\ pc = "wait"
    /\ PollerLogged([op |-> "wait", result |-> "ok", sec |-> rs.check_delay])
    /\ pc' = "probe"
    /\ msg' = ""
    /\ UNCHANGED exc
    /\ PollerFrame

\* the user's interrupt at the wait point ends the run
poller_cancel ==
    /\ pc = "wait"
    /\ Raise("KeyboardInterrupt")
    /\ msg' = ""
    /\ UNCHANGED its
    /\ PollerFrame

\* step 5: the booking call is issued
poller_book ==
    /\ pc = "book"
    /\ PollerLogged([op |-> "book", result |-> "pending", sec |-> 0])
    /\ pc' = "booking"
    /\ msg' = ""
    /\ UNCHANGED exc
    /\ PollerFrame

\* step 5: the booking call comes back: booked, or the slot was taken
poller_booked ==
    /\ pc = "booking"
    /\ \E result \in {"ok", "taken"} :
          /\ its' = [its EXCEPT !.calls[Len(its.calls)].result = result]
          /\ pc' = AfterBooking(result)
          /\ msg' = IF result = "ok" THEN "booked" ELSE "booking error"
    /\ UNCHANGED exc
    /\ PollerFrame

\* "vaccipy search --read-only" with complete contact data
InitPoller ==
    /\ Init
    /\ args.command = "search"
    /\ args.read_only /\ ~args.configure_only
    /\ file = JsonFile(FullKontaktdaten)

NextPoller ==
    \/ MainValidateArgs
    \/ MainDispatch
    \/ subcommand_search
    \/ run_search
    \/ poller_establish_session
    \/ poller_probe
    \/ poller_reestablish_session
    \/ poller_wait
    \/ poller_cancel
    \/ poller_book
    \/ poller_booked

SpecPoller == InitPoller /\ [][NextPoller]_vars

\* the places of the log that hold the action op
Places(op) == {i \in 1..Len(its.calls) : its.calls[i].op = op}

\* the booking calls that have not come back
InFlight == {i \in Places("book") : its.calls[i].result = "pending"}

InPoller == pc \in {"probe", "reestablish_session", "wait", "book",
                    "booking"}

\* C11: every booking call of the Slot Poller directly follows a probe that
\* found slots, the poller stands at a booking only right after such a
\* probe, and at most one booking call is in flight, the latest action.
C11_BookingFollowsProbe ==
    /\ \A i \in Places("book") :
          /\ i > 1
          /\ its.calls[i - 1].op = "probe"
          /\ its.calls[i - 1].result = "slots"
    /\ pc = "book" =>
          /\ its.calls[Len(its.calls)].op = "probe"
          /\ its.calls[Len(its.calls)].result = "slots"
    /\ Cardinality(InFlight) <= 1
    /\ \A i \in InFlight : i = Len(its.calls) /\ pc = "booking"
    /\ pc = "booking" => InFlight # {}

\* a booking failed, the next probe found slots again and the booking succeeded
C11_Witness ==
    /\ pc = "returned"
    /\ Cardinality(Places("book")) = 2
    /\ \E i \in Places("book") : its.calls[i].result = "taken"
    /\ its.calls[Len(its.calls)].result = "ok"
    /\ InFlight = {}

\* the seconds waited in the first n actions of the log
RECURSIVE Elapsed(_, _)
Elapsed(calls, n) ==
    IF n = 0 THEN 0 ELSE Elapsed(calls, n - 1) + calls[n].sec

\* the place of the first probe after place i, 0 if there is none
NextProbe(i) ==
    IF \E j \in Places("probe") : j > i
    THEN CHOOSE j \in Places("probe") :
            j > i /\ \A k \in Places("probe") : k > i => j <= k
    ELSE 0

\* C12: after a probe that met an expired session the next action is the
\* re-establishment of the session and, that done, the next one a probe,
\* with no second waited in between; after a probe that found zero slots
\* the next probe comes wait_interval seconds later or more.
C12_ExpiryRetriesZeroSlotsWait ==
    /\ \A i \in Places("probe") :
          /\ its.calls[i].result = "expired" =>
                /\ i = Len(its.calls) => pc = "reestablish_session"
                /\ i < Len(its.calls) =>
                      its.calls[i + 1].op = "establish_session"
                /\ (i + 1 = Len(its.calls) /\ its.calls[i + 1].result = "ok")
                      => pc = "probe"
                /\ i + 1 < Len(its.calls) =>
                      /\ its.calls[i + 2].op = "probe"
                      /\ Elapsed(its.calls, i + 2) = Elapsed(its.calls, i)
          /\ its.calls[i].result = "zero" =>
                /\ i = Len(its.calls) => pc \in {"wait", "raised"}
                /\ NextProbe(i) # 0 =>
                      Elapsed(its.calls, NextProbe(i)) - Elapsed(its.calls, i)
                          >= args.retry_sec
    /\ InPoller => rs.check_delay = args.retry_sec /\ args.retry_sec > 0

\* an expired session, a retry that finds zero slots, a wait, the next probe
C12_Witness ==
    /\ Len(its.calls) >= 6
    /\ its.calls[2].op = "probe" /\ its.calls[2].result = "expired"
    /\ its.calls[3].op = "establish_session"
    /\ its.calls[4].op = "probe" /\ its.calls[4].result = "zero"
    /\ its.calls[5].op = "wait"
    /\ its.calls[6].op = "probe"
    /\ Elapsed(its.calls, 6) = args.retry_sec

(***************************************************************************)
(* The order of the calls of gen_code                                      *)
(***************************************************************************)
GenCodeOps == {"renew_cookies_code", "code_anfordern", "code_bestaetigen"}

\* gen_code runs, or has returned or raised and its caller not yet gone on
InGenCode == its.created /\ gc # NoGc

\* C13: in a run of gen_code the log of the calls is renew_cookies_code,
\* then code_anfordern, then code_bestaetigen calls only: each of the first
\* two is made once, in this order, every confirmation carries the token
\* the one code_anfordern call returned, and the service object and the
\* request are for the first location of plz_impfzentren only.
C13_GenCodeCallsOrdered ==
    InGenCode =>
        LET calls == its.calls
            n == Len(calls)
        IN  /\ \A i \in 1..n :
                  /\ calls[i].op \in GenCodeOps
                  /\ calls[i].op = "renew_cookies_code" <=> i = 1
                  /\ calls[i].op = "code_anfordern" <=> i = 2
                  /\ calls[i].op = "code_bestaetigen" <=> i >= 3
            /\ \A i \in 3..n :
                  /\ calls[i].token = calls[2].result
                  /\ calls[i].token \in Tokens
            /\ n >= 2 =>
                  /\ calls[2].plz_impfzentrum =
                        kontaktdaten["plz_impfzentren"][1]
                  /\ calls[2].mail =
                        kontaktdaten["kontakt"]["notificationReceiver"]
                  /\ calls[2].leistungsmerkmal \in Leistungsmerkmale
            /\ its.plz_impfzentren = <<kontaktdaten["plz_impfzentren"][1]>>
            /\ pc \in {"gen_code", "leistungsmerkmal", "renew_cookies_code"}
                  => n = 0
            /\ pc = "code_anfordern" => n = 1
            /\ pc = "sms" => n >= 2
            /\ ret # "none" => n >= 2

C13_Witness ==
    /\ InGenCode
    /\ pc = "returned"
    /\ ret = "True"
    /\ Len(its.calls) = 4
    /\ Len(kontaktdaten["plz_impfzentren"]) = 2
    /\ kontaktdaten["plz_impfzentren"][1] # kontaktdaten["plz_impfzentren"][2]

(***************************************************************************)
(* The menu of main                                                        *)
(***************************************************************************)
InMenu == args.command = "none" /\ pc \notin {"main", "dispatch"}

\* the option typed last, lowered
OptionTyped(o) == Lower(inp) = o

\* a toggle of the menu has been refused
ToggleRefused ==
    /\ InMenu
    /\ pc = "raised"
    /\ exc = "ValueError"
    /\ OptionTyped(<<"c">>) \/ OptionTyped(<<"r">>)

\* C14: in the menu the two flags are never both set; the toggle that would
\* set both raises and leaves args (the flags, retry_sec and the file path)
\* and the file as they were, with one of the flags set as before, and the
\* menu reports the error next, args still unchanged.
C14_MenuFlagsExclusive ==
    /\ [](InMenu => ~BothFlags)
    /\ [][(pc = "menu" /\ args' # args) =>
             /\ ~BothFlags'
             /\ pc' = "menu"
             /\ args'.retry_sec = args.retry_sec
             /\ args'.file = args.file
             /\ args'.command = args.command
             /\ file' = file]_vars
    /\ [][(pc = "menu" /\ extended_settings
             /\ \/ Lower(inp') = <<"c">> /\ args.read_only
                \/ Lower(inp') = <<"r">> /\ args.configure_only)
          => ToggleRefused' /\ args' = args /\ file' = file]_vars
    /\ [][ToggleRefused =>
             /\ pc' = "menu"
             /\ msg' = "Fehler"
             /\ args' = args
             /\ file' = file]_vars

C14_Witness ==
    /\ ToggleRefused
    /\ OptionTyped(<<"c">>)
    /\ args.read_only
    /\ ~args.configure_only
    /\ file.state = "json"

(***************************************************************************)
(* update_kontaktdaten_interactive and the contact-data file               *)
(***************************************************************************)
\* update_kontaktdaten_interactive was called with data loaded from the
\* file, which then held JsonFile(known), and has raised
UpdateNotReturned ==
    /\ pc = "raised"
    /\ command # ""
    /\ known # EmptyDict

\* C15: when update_kontaktdaten_interactive does not return normally (the
\* known data is invalid, or a prompt is aborted), the contact-data file
\* holds what it held before the call.
C15_FileKeptWhenNotReturned ==
    UpdateNotReturned => file = JsonFile(known)

\* the key of prompt i is in the data d
HasKeyOf(d, i) ==
    IF Prompts[i].top
    THEN Has(d, Prompts[i].key)
    ELSE Has(d, "kontakt") /\ Has(d["kontakt"], Prompts[i].key)

\* every key of d, at the top and in "kontakt", has its value in e
Keeps(d, e) ==
    /\ \A k \in DOMAIN d \ {"kontakt"} : Has(e, k) /\ e[k] = d[k]
    /\ Has(d, "kontakt") =>
          /\ Has(e, "kontakt")
          /\ \A k \in DOMAIN d["kontakt"] :
                Has(e["kontakt"], k) /\ e["kontakt"][k] = d["kontakt"][k]

InUpdate == pc \in {"input_key", "dump"}

\* C16: update_kontaktdaten_interactive asks only for keys that the known
\* data lacks, for "code" only plz_impfzentren, phone and
\* notificationReceiver; the known data is left as it is and its keys keep
\* their values in the data entered and written; an entry that makes the
\* data invalid is asked for again; the data written is valid.
C16_OnlyMissingFieldsAdded ==
    /\ [](InUpdate => Keeps(known, kontaktdaten))
    /\ [](pc = "input_key" =>
             /\ ~HasKeyOf(known, upos)
             /\ command \in Prompts[upos].cmds
             /\ command = "code" =>
                   Prompts[upos].key \in {"plz_impfzentren", "phone",
                                          "notificationReceiver"})
    /\ [][(InUpdate /\ pc' \in {"input_key", "dump", "raised"})
             => known' = known]_vars
    /\ [][(pc = "input_key" /\ pc' # "raised"
              /\ ~validate_kontaktdaten(kontaktdaten'))
             => pc' = "input_key" /\ upos' = upos /\ file' = file]_vars
    /\ [][pc = "input_key" => file' = file]_vars
    /\ [][pc = "dump" =>
             /\ file' = JsonFile(kontaktdaten)
             /\ validate_kontaktdaten(kontaktdaten)
             /\ Keeps(known, file'.data)]_vars

C16_Witness ==
    /\ pc = "dump"
    /\ command = "code"
    /\ known # EmptyDict
    /\ Has(known, "kontakt")
    /\ ~Has(known["kontakt"], "phone")
    /\ Has(kontaktdaten["kontakt"], "phone")
    /\ Has(known["kontakt"], "vorname")
    /\ Keeps(known, kontaktdaten)

\* an option of the menu has raised
MenuOptionRaised == InMenu /\ pc = "raised"

\* C17: in the menu every exception raised by a subcommand or by a change
\* of the settings is caught and reported and the menu asks again, the
\* settings as they were before the option.
C17_EveryExceptionCaught ==
    [][MenuOptionRaised =>
          /\ pc' = "menu"
          /\ msg' = "Fehler"
          /\ args' = args]_vars

\* C17 but for the interrupt: every exception other than KeyboardInterrupt
\* raised by a subcommand or by a change of the settings (a refused toggle,
\* a --retry-sec entry that is no integer) is caught and reported and the
\* menu asks again; no step of a failed option has changed the settings;
\* KeyboardInterrupt ends the process; the menu ends in no other way than
\* by it or by an exception of the option prompt itself.
C17_EveryExceptionCaughtButInterrupt ==
    /\ [][(MenuOptionRaised /\ exc # "KeyboardInterrupt") =>
             /\ pc' = "menu"
             /\ msg' = "Fehler"
             /\ exc' = ""
             /\ args' = args
             /\ extended_settings' = extended_settings]_vars
    /\ [][(MenuOptionRaised /\ exc = "KeyboardInterrupt") =>
             pc' = "exit" /\ exit_status' = 1]_vars
    /\ [][(InMenu /\ pc' = "raised") => args' = args]_vars
    /\ [][(InMenu /\ pc \notin {"menu", "retry_sec"}) => args' = args]_vars
    /\ [][(pc = "retry_sec" /\ ~IsInt(inp')) =>
             \/ pc' = "raised" /\ exc' = "ValueError" /\ args' = args
             \/ pc' = "raised" /\ inp' = inp]_vars
    /\ [][(InMenu /\ pc' = "exit") =>
             \/ pc = "menu"
             \/ pc = "raised" /\ exc = "KeyboardInterrupt"]_vars

\* the menu asks again after an error, --retry-sec as it was set before
C17_Witness ==
    /\ InMenu
    /\ pc = "menu"
    /\ msg = "Fehler"
    /\ exc = ""
    /\ extended_settings
    /\ args.retry_sec = 5
    /\ args.read_only

(***************************************************************************)
(* The random code of gen_code                                             *)
(***************************************************************************)
\* string.ascii_uppercase + string.digits
code_chars == Range(Uppers) \cup Digits

\* the characters the random choices are drawn from here: the first and the
\* last letter and digit, and one in between
CodeCharsDrawn == {"A", "M", "Z", "0", "9"}

NextRandomCode ==
    \/ MainValidateArgs
    \/ MainDispatch
    \/ subcommand_code
    \/ gen_code(CodeCharsDrawn)

SpecRandomCode == InitCodeReadOnly /\ [][NextRandomCode]_vars

\* gen_code has made the random code and the service object with it
RandomCodeMade == pc = "leistungsmerkmal" /\ its.created

\* C18: whatever is drawn, the random code of gen_code has 14 characters
\* in three groups of 4 separated by hyphens, every character of a group
\* an uppercase letter or a digit, the first group VACC, the second one
\* beginning with IPY.
C18_RandomCodeFormat ==
    RandomCodeMade =>
        LET groups == Split(its.code, "-")
        IN  /\ Len(its.code) = 14
            /\ Len(groups) = 3
            /\ \A g \in 1..3 :
                  /\ Len(groups[g]) = 4
                  /\ \A i \in 1..4 : groups[g][i] \in code_chars
            /\ groups[1] = <<"V","A","C","C">>
            /\ SubSeq(groups[2], 1, 3) = <<"I","P","Y">>

C18_Witness ==
    /\ RandomCodeMade
    /\ its.code = <<"V","A","C","C","-","I","P","Y","9","-","A","0","Z","M">>

====
